---- MODULE Spec2Model ----
(***************************************************************************)
(* Model of the three publisher scripts of the repository:                 *)
(*   caipu.py          (AI title, body, tags, AI cover image, publish)     *)
(*   caipunoai.py      (same pipeline, cover image rendered locally)       *)
(*   xiaohongshumcp.py (no title stage, grade filter, while-loop batch)    *)
(* Strings are sequences of one-character strings.  Python None is the     *)
(* one-element sequence None, which no string of the model equals.         *)
(***************************************************************************)
EXTENDS Integers, Sequences, FiniteSets, TLC

\* ------------------------------------------------------------------ bounds
NumRows == 2        \* rows of the ledger
MaxRuns == 2        \* consecutive runs of a script over the same store
CountCap == 4       \* observation counters saturate here (above MAX_RETRIES)

\* ------------------------------------------------------- program constants
MAX_RETRIES == 3
TAGS_COUNT == 3
MAX_TITLE_LENGTH == 20
BASE_INTERVAL == 3600
OFFSET_MIN == 300
OFFSET_MAX == 900

Scripts == {"caipu", "caipunoai", "xiaohongshumcp"}
HasTitleStage(s) == s \in {"caipu", "caipunoai"}

\* ------------------------------------------------------------ Python values
None == <<"<None>">>
Rep(c, n) == [i \in 1..n |-> c]
IsSpace(c) == c \in {" ", "\n"}
Min(a, b) == IF a < b THEN a ELSE b
Sat(n) == Min(n + 1, CountCap)

\* bool(x) of a str, a list or None
Truthy(x) == x /= None /\ x /= <<>>

\* s[:n]
Take(s, n) == SubSeq(s, 1, Min(n, Len(s)))

RECURSIVE LStrip(_)
LStrip(s) == IF s /= <<>> /\ IsSpace(Head(s)) THEN LStrip(Tail(s)) ELSE s
RECURSIVE RStrip(_)
RStrip(s) ==
    IF s /= <<>> /\ IsSpace(s[Len(s)]) THEN RStrip(SubSeq(s, 1, Len(s) - 1)) ELSE s
\* str.strip()
Strip(s) == RStrip(LStrip(s))

\* s.startswith(p)
StartsWith(s, p) == Len(s) >= Len(p) /\ SubSeq(s, 1, Len(p)) = p

ELLIPSIS == "..."               \* the one character U+2026
truncate_title_cut_at_cap(title) == Take(title, MAX_TITLE_LENGTH) \o <<ELLIPSIS>>
truncate_title_cut(title) == Take(title, MAX_TITLE_LENGTH - 1) \o <<ELLIPSIS>>
truncate_title(title) ==
    IF ~Truthy(title) THEN <<>>
    ELSE LET t == Strip(title) IN
         IF Len(t) <= MAX_TITLE_LENGTH THEN t ELSE truncate_title_cut(t)

\* ------------------------------------------------------------------ JSON
\* A JSON text is a string; json_loads parses the array-of-scalars grammar
\* the tag prompt asks for:  [ item , item ... ]  with item a quoted string
\* or a one-digit number.  Result: [ok, items], items of [isstr, s].
Digits == {"0", "1", "2"}
QUOTE == "\""
RECURSIVE SkipWs(_, _)
SkipWs(t, i) == IF i <= Len(t) /\ IsSpace(t[i]) THEN SkipWs(t, i + 1) ELSE i
RECURSIVE CloseQuote(_, _)
\* position of the next quote at or after i, 0 when there is none
CloseQuote(t, i) ==
    IF i > Len(t) THEN 0 ELSE IF t[i] = QUOTE THEN i ELSE CloseQuote(t, i + 1)
JsonFail == [ok |-> FALSE, items |-> <<>>]
RECURSIVE ParseItems(_, _, _)
ParseItems(t, i0, acc) ==
    LET i == SkipWs(t, i0) IN
    IF i > Len(t) THEN JsonFail
    ELSE LET j == IF t[i] = QUOTE THEN CloseQuote(t, i + 1) ELSE 0
             isStr == t[i] = QUOTE /\ j > 0
             isNum == t[i] \in Digits
             item == IF isStr THEN [isstr |-> TRUE, s |-> SubSeq(t, i + 1, j - 1)]
                     ELSE [isstr |-> FALSE, s |-> <<t[i]>>]
             k == SkipWs(t, IF isStr THEN j + 1 ELSE i + 1)
         IN  IF ~(isStr \/ isNum) \/ k > Len(t) THEN JsonFail
             ELSE IF t[k] = "," THEN ParseItems(t, k + 1, Append(acc, item))
             ELSE IF t[k] = "]" /\ SkipWs(t, k + 1) > Len(t)
                  THEN [ok |-> TRUE, items |-> Append(acc, item)]
             ELSE JsonFail
json_loads(t) ==
    LET i == SkipWs(t, 1) IN
    IF i > Len(t) \/ t[i] /= "[" THEN JsonFail
    ELSE LET k == SkipWs(t, i + 1) IN
         IF k <= Len(t) /\ t[k] = "]" /\ SkipWs(t, k + 1) > Len(t)
         THEN [ok |-> TRUE, items |-> <<>>]
         ELSE ParseItems(t, i + 1, <<>>)

\* [t.strip() for t in tags if isinstance(t, str) and t.strip()]
RECURSIVE tags_clean(_)
tags_clean(items) ==
    IF items = <<>> THEN <<>>
    ELSE LET t == Head(items) IN
         IF t.isstr /\ Strip(t.s) /= <<>>
         THEN <<Strip(t.s)>> \o tags_clean(Tail(items))
         ELSE tags_clean(Tail(items))

\* ------------------------------------------------- generation service data
\* One response of the text endpoint: a transport/JSON exception, a body that
\* is not an object, {"output": {}} without text, {"output": {"choices": []}},
\* a choice with "content": [], {"output": {"text": 123}},
\* {"output": {"text": [text]}}, or {"output": {"text": text}}.
Blank == <<" ">>
Hi == <<"h", "i">>
\* a body with markup, a sentence mark, a blank line and padding
MarkedUp == <<" ", "#", " ", "h", "JU", "\n", "\n", "-", " ", "i", " ">>
\* a body that consists of markup alone
MarkupOnly == <<"#", "#">>
LongText == <<" ">> \o Rep("h", MAX_TITLE_LENGTH + 2) \o <<" ">>
Q(str) == <<QUOTE>> \o str \o <<QUOTE>>
TagA == <<"a", "b">>
TagB == <<"c", "d">>
TagC == <<"e", "f">>
TagD == <<"g", "h">>
FourTags ==
    <<"[">> \o Q(TagA) \o <<",">> \o Q(TagB) \o <<",", " ">> \o Q(TagC)
            \o <<",">> \o Q(TagD) \o <<"]">>
OneTag == <<"[">> \o Q(<<" ">> \o TagA) \o <<"]">>
MixedTags == <<"[", "1", ",">> \o Q(TagA) \o <<"]">>
OpenArray == <<"[">> \o Q(TagA)
EmptyArray == <<"[", "]">>
BlankTag == <<"[">> \o Q(Blank) \o <<"]">>
\* an array of strings with a repeated tag and a one-character tag
TwinTags ==
    <<"[">> \o Q(TagA) \o <<",">> \o Q(<<"c">>) \o <<",">> \o Q(TagA) \o <<"]">>

TitleTexts == {<<>>, Blank, LongText}
BodyTexts == {<<>>, Blank, MarkedUp, MarkupOnly}
TagTexts ==
    {<<>>, Hi, FourTags, OneTag, MixedTags, OpenArray, EmptyArray, BlankTag, TwinTags}
Urls == {<<>>, <<"u">>}
Num == <<"<123>">>              \* a value that is a JSON number
Malformed == {"non_object", "empty_choices", "empty_content"}

Resp(shape, text) == [shape |-> shape, text |-> text]
TextData(texts) ==
    {Resp("exception", <<>>), Resp("no_text", <<>>), Resp("number", Num)}
    \cup {Resp(shape, <<>>) : shape \in Malformed}
    \cup {Resp("text", t) : t \in texts} \cup {Resp("list", t) : t \in texts}
\* the image endpoint: the same shapes around content[0]["image"]
ImageData ==
    {Resp("exception", <<>>), Resp("no_output", <<>>), Resp("number", Num)}
    \cup {Resp(shape, <<>>) : shape \in Malformed}
    \cup {Resp("image", u) : u \in Urls}

\* qwen_request of caipu.py / caipunoai.py: [raised, value]
\* ---- the response body as qwen_request reads it
\* a JSON value at a field: absent, a string, a number, [s], [{"text": s}], []
Absent == [type |-> "absent", s |-> <<>>]
Str(t) == [type |-> "str", s |-> t]
Number == [type |-> "num", s |-> Num]
ListOfStr(t) == [type |-> "list_str", s |-> t]
ListOfObj(t) == [type |-> "list_obj", s |-> t]
EmptyList == [type |-> "empty_list", s |-> <<>>]
Raises == [type |-> "raises", s |-> <<>>]       \* no value: the lookup raised
\* bool(v)
ValueTruthy(v) ==
    v.type \in {"num", "list_str", "list_obj"} \/ (v.type = "str" /\ v.s /= <<>>)
\* kind: the request raised, the body is not an object, or it is
\* {"output": {"text": text, "choices": [{"message": {"content": content}}]}}
\* with choices absent, [] or of one element
Body(kind, text, choices, content) ==
    [kind |-> kind, text |-> text, choices |-> choices, content |-> content]
BodyOf(data) ==
    IF data.shape \in {"exception", "non_object"}
    THEN Body(data.shape, Absent, "absent", Absent)
    ELSE IF data.shape = "text" THEN Body("object", Str(data.text), "absent", Absent)
    ELSE IF data.shape = "list" THEN Body("object", ListOfStr(data.text), "absent", Absent)
    ELSE IF data.shape = "number" THEN Body("object", Number, "absent", Absent)
    ELSE IF data.shape = "empty_choices" THEN Body("object", Absent, "empty", Absent)
    ELSE IF data.shape = "empty_content" THEN Body("object", Absent, "one", EmptyList)
    ELSE IF data.shape = "content" THEN Body("object", Absent, "one", Str(data.text))
    ELSE IF data.shape = "content_array"
    THEN Body("object", Absent, "one", ListOfObj(data.text))
    ELSE Body("object", Absent, "absent", Absent)

\* str(t) of the dict {"text": s}, for s without apostrophe or backslash
RECURSIVE Escaped(_)
Escaped(t) ==
    IF t = <<>> THEN <<>>
    ELSE (IF Head(t) = "\n" THEN <<"\\", "n">> ELSE <<Head(t)>>) \o Escaped(Tail(t))
DictRepr(t) ==
    <<"{", "'", "t", "e", "x", "t", "'", ":", " ", "'">> \o Escaped(t) \o <<"'", "}">>

Raised == [raised |-> TRUE, value |-> None]
\* `a or b or c`: the first truthy one of output.text, content, and
\* content[0]["text"]; [0] raises on [] and on "", .get on a body that is not
\* an object
first_truthy(body) ==
    IF ValueTruthy(body.text) THEN body.text
    ELSE IF body.choices = "empty" THEN Raises
    ELSE IF body.choices = "one" /\ ValueTruthy(body.content) THEN body.content
    ELSE IF body.choices = "one" /\ body.content.type /= "absent" THEN Raises
    ELSE Absent
\* qwen_request of caipu.py / caipunoai.py on a body: [raised, value].  A
\* list is joined with str() of its elements, text.strip() raises on a number
qwen_extract(body) ==
    IF body.kind /= "object" THEN Raised
    ELSE LET found == first_truthy(body)
             text == IF found.type = "list_str" THEN found.s
                     ELSE IF found.type = "list_obj" THEN DictRepr(found.s)
                     ELSE IF found.type = "str" THEN found.s
                     ELSE None
         IN  IF found.type \in {"raises", "num"} THEN Raised
             ELSE [raised |-> FALSE,
                   value  |-> IF Truthy(text) THEN Strip(text) ELSE None]
qwen_request(data) == qwen_extract(BodyOf(data))

Accept(v) == [accepted |-> TRUE, value |-> v]
Reject == [accepted |-> FALSE, value |-> None]

\* one pass of the attempt loop of call_qwen_title
title_attempt(data) ==
    LET r == qwen_request(data) IN
    IF ~r.raised /\ Truthy(r.value) THEN Accept(truncate_title(r.value)) ELSE Reject

\* one pass of the attempt loop of call_qwen_text
text_attempt_qwen(data) ==
    LET r == qwen_request(data) IN
    IF ~r.raised /\ Truthy(r.value) THEN Accept(r.value) ELSE Reject
text_attempt_mcp(data) ==
    IF data.shape = "text" /\ Truthy(data.text) THEN Accept(Strip(data.text)) ELSE Reject
text_attempt(s, data) ==
    IF s = "xiaohongshumcp" THEN text_attempt_mcp(data) ELSE text_attempt_qwen(data)

\* one pass of the attempt loop of call_qwen_tags
tags_accept(parsed) ==
    IF parsed.ok /\ tags_clean(parsed.items) /= <<>>
    THEN Accept(Take(tags_clean(parsed.items), TAGS_COUNT)) ELSE Reject
tags_attempt_qwen(data) ==
    LET r == qwen_request(data) IN
    IF ~r.raised /\ Truthy(r.value) /\ StartsWith(r.value, <<"[">>)
    THEN tags_accept(json_loads(r.value)) ELSE Reject
tags_attempt_mcp(data) ==
    LET tags_str == IF data.shape = "text" THEN Strip(data.text) ELSE <<>> IN
    IF data.shape /= "exception" /\ StartsWith(tags_str, <<"[">>)
       /\ tags_str[Len(tags_str)] = "]"
    THEN tags_accept(json_loads(tags_str)) ELSE Reject
tags_attempt(s, data) ==
    IF s = "xiaohongshumcp" THEN tags_attempt_mcp(data) ELSE tags_attempt_qwen(data)

\* the fallback list returned when every attempt failed
default_tags_qwen(dish_name) ==
    << Take(dish_name, 4) \o <<"jia", "chang">>,
       <<"mei", "shi", "tui", "jian">>,
       <<"xia", "fan", "cai">> >>
default_tags_mcp(title) ==
    << Take(title, 5) \o <<"bei", "jing", "zhen", "ti">>,
       <<"bei", "jing", "chu", "gao", "zhong", "zi", "yuan">>,
       <<"bei", "jing", "jia", "zhang", "bi", "bei">> >>
default_tags(s, title) ==
    IF s = "xiaohongshumcp" THEN default_tags_mcp(title) ELSE default_tags_qwen(title)

\* tags = [f"#{t}" if not t.startswith("#") else t for t in tags]
prefix_tags(ts) ==
    [i \in 1..Len(ts) |-> IF StartsWith(ts[i], <<"#">>) THEN ts[i] ELSE <<"#">> \o ts[i]]

\* one pass of the attempt loop of call_qwen_image
image_attempt(data) ==
    IF data.shape \in {"image", "number"} /\ Truthy(data.text)
    THEN Accept(data.text) ELSE Reject

\* create_dish_image: None for an empty title, for a font that cannot be
\* read (IOError) and for any other exception (saved = FALSE)
create_dish_image(title, fontState, saved) ==
    IF Strip(title) = <<>> \/ fontState /= "ok" \/ ~saved THEN None ELSE <<"p">>

\* the line breaking of create_dish_image over words = jieba.lcut(title_clean)
target_max == 4
Drop(s, n) == SubSeq(s, n + 1, Len(s))
RECURSIVE Join(_)
Join(parts) == IF parts = <<>> THEN <<>> ELSE Head(parts) \o Join(Tail(parts))
\* `for word in words:` with lines, current_line and current_length, and the
\* `if current_line: lines.append(...)` after the loop
RECURSIVE pack_words(_, _, _, _)
pack_words(words, lines, current_line, current_length) ==
    IF words = <<>>
    THEN IF current_line /= <<>> THEN Append(lines, Join(current_line)) ELSE lines
    ELSE LET word == Head(words)
             word_len == Len(word)
         IN  IF current_length + word_len <= target_max
             THEN pack_words(Tail(words), lines, Append(current_line, word),
                             current_length + word_len)
             ELSE IF current_line /= <<>>
             THEN pack_words(Tail(words), Append(lines, Join(current_line)),
                             <<word>>, word_len)
             ELSE pack_words(Tail(words), Append(lines, Take(word, target_max)),
                             <<Drop(word, target_max)>>, word_len - target_max)
\* `if len(lines) >= 2 and len(lines[-1]) <= 2: lines[-2] += lines[-1]; lines.pop()`
merge_last_line_popped(lines) == SubSeq(lines, 1, Len(lines) - 1)
merge_last_line(lines) ==
    LET n == Len(lines) IN
    SubSeq(lines, 1, n - 2) \o <<lines[n - 1] \o lines[n]>>
merge_short_last_never(lines) == lines
merge_short_last(lines) ==
    IF Len(lines) >= 2 /\ Len(lines[Len(lines)]) <= 2 THEN merge_last_line(lines)
    ELSE lines
dish_lines(words) == merge_short_last(pack_words(words, <<>>, <<>>, 0))

\* the font size search of create_dish_image.  A font is its metrics in half
\* ems: the advance of a character and the bottom of the box of the sample
\* character, both proportional to the size as in a scalable font.
IMAGE_WIDTH == 1140
IMAGE_HEIGHT == 1472
margin == 50
line_spacing == 20
first_font_size == 10
font_size_step == 2
max_width == IMAGE_WIDTH - 2 * margin
max_height == IMAGE_HEIGHT - 2 * margin
FontMetrics == [advance : {1, 2}, height : {2, 3}]
\* draw.textlength(line, font=test_font) and test_font.getbbox(...)[3]
textlength(line, font, size) == (Len(line) * size * font.advance) \div 2
line_height(font, size) == (size * font.height) \div 2
MaxOf(S) == CHOOSE m \in S : \A x \in S : x <= m
max_line_width(lines, font, size) ==
    MaxOf({textlength(lines[i], font, size) : i \in 1..Len(lines)})
total_height(lines, font, size) ==
    line_height(font, size) * Len(lines) + line_spacing * (Len(lines) - 1)
\* `if max_line_width > max_width or total_height > max_height: break`
out_of_bounds_width_only(lines, font, size) ==
    max_line_width(lines, font, size) > max_width
out_of_bounds(lines, font, size) ==
    \/ max_line_width(lines, font, size) > max_width
    \/ total_height(lines, font, size) > max_height
\* `while True:` tests the sizes first_font_size + k * font_size_step for
\* k = 0, 1, 2, ... in this order and breaks at the first one out of bounds.
\* first_break(lo, hi): the first such k in lo..hi, -1 if there is none; the
\* sizes are tested one after the other, the recursion only halves the range.
MaxFontSize == 1400
tested_size(k) == first_font_size + k * font_size_step
RECURSIVE first_break(_, _, _, _)
first_break(lines, font, lo, hi) ==
    IF lo = hi
    THEN IF out_of_bounds(lines, font, tested_size(lo)) THEN lo ELSE -1
    ELSE LET mid == (lo + hi) \div 2
             left == first_break(lines, font, lo, mid)
         IN  IF left /= -1 THEN left ELSE first_break(lines, font, mid + 1, hi)
\* best_size when the loop is left: the last size that passed the test, or
\* the initial best_size; the loop is cut off above MaxFontSize (ended =
\* FALSE: it would still be running)
best_font_size(lines, font) ==
    LET k == first_break(lines, font, 0, (MaxFontSize - first_font_size) \div font_size_step)
    IN  IF k = -1 THEN [ended |-> FALSE, best_size |-> MaxFontSize]
        ELSE [ended |-> TRUE,
              best_size |-> IF k = 0 THEN first_font_size ELSE tested_size(k - 1)]

\* ------------------------------------------------------- publish service
PublishData ==
    {[shape |-> "exception", success |-> FALSE, message |-> FALSE]}
    \cup [shape : {"json"}, success : BOOLEAN, message : BOOLEAN]

\* result.get("success") of the response to a request that was issued
success_indicator(sent, data) ==
    IF ~sent \/ data.shape /= "json" THEN "none"
    ELSE IF data.success THEN "true" ELSE "other"
\* [sent, ret]: whether a request was issued, and the returned bool
publish_to_mcp_qwen(data) ==
    [sent |-> TRUE, ret |-> data.shape = "json" /\ data.success]
publish_to_mcp_mcp(title, body, image, tagList, data) ==
    IF ~(Truthy(title) /\ Truthy(body) /\ Truthy(image) /\ Truthy(tagList))
    THEN [sent |-> FALSE, ret |-> FALSE]
    ELSE [sent |-> TRUE,
          ret  |-> data.shape = "json" /\ data.success /\ data.message]
publish_to_mcp(s, title, body, image, tagList, data) ==
    IF s = "xiaohongshumcp" THEN publish_to_mcp_mcp(title, body, image, tagList, data)
    ELSE publish_to_mcp_qwen(data)

\* ------------------------------------------------------------------ ledger
Published == "Published"        \* the status string of a published row
Unpublished == "Unpublished"    \* the status string of an unpublished row
Rows == 1..NumRows

\* identifiers (original titles): a short one, one over the title cap, ...
IdOf(k) ==
    IF k = 1 THEN <<"x", "y">>
    ELSE IF k = 2 THEN Rep("z", MAX_TITLE_LENGTH + 2)
    ELSE Rep("w", k)
\* the first two rows are of one grade group, the others of the other group
GradeOf(k) == IF k > 2 THEN "chu1" ELSE "gao1"
GradeOrder == <<"chu1", "gao1">>
GRADE_GROUPS(group) ==
    IF group = "gaozhongzu" THEN {"gao1", "gao2", "gao3", "gaozhong", "gaokao"}
    ELSE IF group = "chuzhongzu" THEN {"chu1", "chu2", "chu3", "zhongkaozhen"}
    ELSE {}

Row(title, grade, done) ==
    [title |-> title, grade |-> grade,
     published |-> IF done THEN Published ELSE Unpublished,
     publish_time |-> IF done THEN <<"t", "0">> ELSE <<>>]
\* a ledger file as load_csv_data returns it; dup: rows 1 and 2 share a title;
\* old: the rows published before this run
Ledger(dup, old) ==
    [r \in Rows |-> Row(IF dup /\ r = 2 THEN IdOf(1) ELSE IdOf(r), GradeOf(r), r \in old)]
Ledgers ==
    {Ledger(dup, old) : dup \in BOOLEAN, old \in {{}, {NumRows}}}

\* df[df["published"] == "Unpublished"], as the set of its row numbers
filter_unpublished(d) == {r \in Rows : d[r].published = Unpublished}
get_available_grades(d) ==
    SelectSeq(GradeOrder, LAMBDA g : \E r \in Rows : d[r].grade = g)
filter_by_grade(d, grade_choice) ==
    IF GRADE_GROUPS(grade_choice) /= {}
    THEN {r \in filter_unpublished(d) : d[r].grade \in GRADE_GROUPS(grade_choice)}
    ELSE {r \in filter_unpublished(d) : d[r].grade = grade_choice}

\* df.loc[df[title] == x, published] = Published; df.loc[..., publish_time] = now
mark_published_all(d, x, now) ==
    [r \in Rows |-> [d[r] EXCEPT !.published = Published, !.publish_time = now]]
mark_published(d, x, now) ==
    [r \in Rows |-> IF d[r].title = x
                    THEN [d[r] EXCEPT !.published = Published, !.publish_time = now]
                    ELSE d[r]]

\* df.sample(frac=1): every ordering of the rows
Shuffles_with_replacement(S) == [1..Cardinality(S) -> S]
Shuffles(S) ==
    {f \in [1..Cardinality(S) -> S] : \A i, j \in 1..Cardinality(S) : f[i] = f[j] => i = j}

\* random.randint(3600 + 300, 3600 + 900), sampled at both ends and the middle
pacing_delays_no_base ==
    {o : o \in {OFFSET_MIN, (OFFSET_MIN + OFFSET_MAX) \div 2, OFFSET_MAX}}
pacing_delays ==
    {BASE_INTERVAL + o : o \in {OFFSET_MIN, (OFFSET_MIN + OFFSET_MAX) \div 2, OFFSET_MAX}}

\* user input at a prompt: text that int() rejects, or a number
Input(numeric, n) == [numeric |-> numeric, n |-> n]
QuotaInputs == {Input(FALSE, 0)} \cup {Input(TRUE, n) : n \in -1..(NumRows + 1)}
GradeInputs == {Input(FALSE, 0)} \cup {Input(TRUE, n) : n \in 0..(Len(GradeOrder) + 2)}

\* ------------------------------------------------------------------- state
VARIABLES
    script,        \* which of the three scripts runs
    font,          \* DISH_FONT_PATH: "ok", "absent" or "unreadable"
    run,           \* number of the current run over the store
    store,         \* the ledger file at CSV_PATH
    df,            \* main: df, the ledger in memory
    pc,            \* position of main
    selected,      \* main: unpublished_df / filtered_df (row numbers)
    to_publish,    \* main: to_publish, the shuffled rows
    daily_quota,   \* main: daily_quota
    idx,           \* main: idx (published_count in xiaohongshumcp.py)
    attempt,       \* attempt of the running call_qwen_* loop
    final_title,   \* main: final_title (title in xiaohongshumcp.py)
    content,       \* main: content
    tags,          \* main: tags
    image_url,     \* main: image_url / image_path
    delay,         \* main: delay / next_interval while sleeping, else 0
    \* ---- observation only
    cur,           \* batch index of the record last begun, -1 before the first
    calls,         \* requests to the service watch for the record cur
    passes,        \* how many times the record cur was begun
    succeeded,     \* rows whose publish_to_mcp returned True in this run
    lastCall,      \* the stage call that returned in the last step: requests made,
                   \* failed responses, whether the last response was usable
                   \* (good), whether its value was returned (same), and
                   \* whether None was returned (empty)
    sinceSubmit,   \* pacing delays since the last publish request, -1: none yet
    persistFailed, \* row whose save_csv_data raised in this run, 0: none
    lostRow,       \* row whose save_csv_data raised in the run before, 0: none
    watch,         \* the service whose requests calls counts
    asked,         \* <<n>>: the quota n typed at the prompt in the last step
    answer,        \* the success indicator of the publish response received in
                   \* the last step: "true", "other", or "none" (no response)
    \* ---- a function of the scripts applied on its own
    fn,            \* the function applied, "main" while a script runs
    arg,           \* its argument
    result,        \* its result, None before the call
    applied        \* how many times it was applied

main_vars == <<script, font, run, store, df, pc, selected, to_publish, daily_quota,
               idx, attempt, final_title, content, tags, image_url, delay, cur, calls,
               passes, succeeded, lastCall, sinceSubmit, persistFailed, lostRow, watch,
               asked, answer>>
call_vars == <<fn, arg, result, applied>>
vars == <<main_vars, call_vars>>

Services == {"title", "body", "tags", "image", "publish"}
NoCall == [stage |-> "none", reqs |-> 0, fails |-> 0, good |-> FALSE,
           same |-> FALSE, empty |-> TRUE, strings |-> FALSE, valued |-> FALSE]
FirstStage(s) == IF HasTitleStage(s) THEN "title" ELSE "body"
Stopped == {"done", "aborted", "killed"}

\* row = to_publish.iloc[idx]; original_title = row[title]
current_row == to_publish[idx + 1]
original_title == df[current_row].title
\* datetime.now().strftime(...): a non-empty string
now == Rep("t", run)

Init ==
    /\ script \in Scripts
    /\ font \in {"ok", "absent", "unreadable"}
    /\ (script /= "caipunoai" => font = "ok")
    /\ run = 1
    /\ store \in Ledgers
    /\ df = store
    /\ pc = "load"
    /\ selected = {}
    /\ to_publish = <<>>
    /\ daily_quota = 0
    /\ idx = 0
    /\ attempt = 1
    /\ final_title = None
    /\ content = None
    /\ tags = <<>>
    /\ image_url = None
    /\ delay = 0
    /\ cur = -1
    /\ calls = 0
    /\ passes = 0
    /\ succeeded = {}
    /\ lastCall = NoCall
    /\ sinceSubmit = -1
    /\ persistFailed = 0
    /\ lostRow = 0
    /\ watch \in Services
    /\ asked = <<>>
    /\ answer = "none"
    /\ fn = "main"
    /\ arg = None
    /\ result = None
    /\ applied = 0

\* ------------------------------------------------------ the batch loop
\* The loop header: the record at batch index i is begun, or the loop ends.
\* counted: the request counters after this step's own request
BeginRecord(i, quota, batch, counted) ==
    /\ idx' = i
    /\ attempt' = 1
    /\ content' = None
    /\ tags' = <<>>
    /\ image_url' = None
    /\ delay' = 0
    /\ IF i < quota
       THEN /\ pc' = FirstStage(script)
            /\ final_title' = IF HasTitleStage(script) THEN None ELSE df[batch[i + 1]].title
            /\ cur' = i
            /\ calls' = IF i = cur THEN counted ELSE 0
            /\ passes' = IF i = cur THEN Sat(passes) ELSE 1
       ELSE /\ pc' = "done"
            /\ final_title' = None
            /\ calls' = counted
            /\ UNCHANGED <<cur, passes>>

\* `continue` after a failed body or image stage
skip_same_index == idx
skip_next_index == idx + 1
SkipRecord(counted) == BeginRecord(skip_next_index, daily_quota, to_publish, counted)

\* the per-record locals of main are dead once the publish branch is over:
\* every one of them is assigned again before the next iteration reads it
ForgetLocals ==
    /\ attempt' = 1
    /\ final_title' = None
    /\ content' = None
    /\ tags' = <<>>
    /\ image_url' = None

\* the tail of the loop body: the pacing decision after the publish branch
\* (count: idx after the branch; more: the condition of the pacing `if`)
PaceOrEnd(count, more) ==
    /\ idx' = count
    /\ IF more
       THEN /\ pc' = "sleep"
            /\ delay' \in pacing_delays
       ELSE /\ pc' = "done"
            /\ delay' = 0
    /\ ForgetLocals
    /\ UNCHANGED <<cur, passes>>

\* ------------------------------------------------------ text normalizer
\* Characters outside ASCII are written as tokens: JU, TAN, WEN are the full
\* stop, exclamation and question marks of the sentence pattern, FULLCOLON the
\* wide colon, LB and RB the brackets of a section label, BULLET the list dot,
\* BACKTICK the grave accent.
SentenceEnds == {"JU", "TAN", "WEN"}
Colons == {":", "FULLCOLON"}
keywords ==
    << <<"yuan", "liao">>, <<"cai", "liao">>, <<"shi", "cai">>, <<"pei", "liao">>,
       <<"zhi", "zuo", "liu", "cheng">>, <<"zuo", "fa">>, <<"bu", "zhou">>,
       <<"ti", "shi">>, <<"zong", "jie">> >>

\* re.sub(r'[...]+', '', text)
RemoveChars(t, set) == SelectSeq(t, LAMBDA c : c \notin set)
\* re.sub(r'\s+', ' ', text)
RECURSIVE CollapseWs(_)
CollapseWs(t) ==
    IF t = <<>> THEN <<>>
    ELSE IF IsSpace(Head(t)) THEN <<" ">> \o CollapseWs(LStrip(t))
    ELSE <<Head(t)>> \o CollapseWs(Tail(t))
\* re.sub(r'([...])', r'\1' + tail, text) for the sentence marks
RECURSIVE AfterSentence(_, _)
AfterSentence(t, tail) ==
    IF t = <<>> THEN <<>>
    ELSE IF Head(t) \in SentenceEnds THEN <<Head(t)>> \o tail \o AfterSentence(Tail(t), tail)
    ELSE <<Head(t)>> \o AfterSentence(Tail(t), tail)
\* re.sub(rf'({kw})[:...]', r'\n\n[\1]\n', text)
RECURSIVE LabelKeyword(_, _)
LabelKeyword(t, kw) ==
    IF t = <<>> THEN <<>>
    ELSE IF StartsWith(t, kw) /\ Len(t) > Len(kw) /\ t[Len(kw) + 1] \in Colons
    THEN <<"\n", "\n", "LB">> \o kw \o <<"RB", "\n">>
         \o LabelKeyword(SubSeq(t, Len(kw) + 2, Len(t)), kw)
    ELSE <<Head(t)>> \o LabelKeyword(Tail(t), kw)
RECURSIVE LabelKeywords(_, _)
LabelKeywords(t, k) ==
    IF k > Len(keywords) THEN t ELSE LabelKeywords(LabelKeyword(t, keywords[k]), k + 1)
\* re.sub(r'\n{3,}', '\n\n', text)
RECURSIVE NewlineRun(_, _)
NewlineRun(t, i) == IF i <= Len(t) /\ t[i] = "\n" THEN NewlineRun(t, i + 1) ELSE i
RECURSIVE CollapseNewlines(_)
CollapseNewlines(t) ==
    IF t = <<>> THEN <<>>
    ELSE IF Head(t) = "\n"
    THEN LET e == NewlineRun(t, 1) IN
         (IF e - 1 >= 3 THEN <<"\n", "\n">> ELSE SubSeq(t, 1, e - 1))
         \o CollapseNewlines(SubSeq(t, e, Len(t)))
    ELSE <<Head(t)>> \o CollapseNewlines(Tail(t))

clean_markdown(text) ==
    IF ~Truthy(text) THEN <<>>
    ELSE Strip(CollapseWs(RemoveChars(text, {"#", "*", "-", ">", "_", "BACKTICK"})))

format_content(text) ==
    IF ~Truthy(text) THEN <<>>
    ELSE Strip(CollapseNewlines(
             LabelKeywords(AfterSentence(Strip(text), <<"\n", "\n">>), 1)))

\* The three MULTILINE patterns of markdown_to_xiaohongshu, matched at a line
\* start i; the result is the index after the match, 0 when there is none.
RECURSIVE SkipIn(_, _, _)
SkipIn(t, i, set) == IF i <= Len(t) /\ t[i] \in set THEN SkipIn(t, i + 1, set) ELSE i
\* ^\s*#+\s*
MatchHeading(t, i) ==
    LET q == SkipWs(t, i)
        r == SkipIn(t, q, {"#"})
    IN  IF r > q THEN SkipWs(t, r) ELSE 0
\* ^\s*[-+*]\s+
MatchBullet(t, i) ==
    LET q == SkipWs(t, i) IN
    IF q <= Len(t) /\ t[q] \in {"-", "+", "*"} /\ SkipWs(t, q + 1) > q + 1
    THEN SkipWs(t, q + 1) ELSE 0
\* ^\s*\d+\.\s+
MatchNumber(t, i) ==
    LET q == SkipWs(t, i)
        r == SkipIn(t, q, Digits)
    IN  IF r > q /\ r <= Len(t) /\ t[r] = "." /\ SkipWs(t, r + 1) > r + 1
        THEN SkipWs(t, r + 1) ELSE 0
MatchLine(t, i, kind) ==
    IF kind = "heading" THEN MatchHeading(t, i)
    ELSE IF kind = "bullet" THEN MatchBullet(t, i)
    ELSE MatchNumber(t, i)
\* re.sub(pattern, repl, text, flags=re.MULTILINE)
RECURSIVE SubLines(_, _, _, _)
SubLines(t, i, kind, repl) ==
    IF i > Len(t) THEN <<>>
    ELSE IF (i = 1 \/ t[i - 1] = "\n") /\ MatchLine(t, i, kind) > 0
    THEN repl \o SubLines(t, MatchLine(t, i, kind), kind, repl)
    ELSE <<t[i]>> \o SubLines(t, i + 1, kind, repl)

\* The bold patterns find nothing once * and _ are deleted, and the link
\* pattern $$(.*?)$$$(.*?)$$ matches the empty string at the end only.
markdown_to_xiaohongshu(text) ==
    IF ~Truthy(text) THEN <<>>
    ELSE LET s1 == RemoveChars(text, {"*", "_", "~", "BACKTICK"})
             s2 == SubLines(s1, 1, "heading", <<>>)
             s3 == SubLines(s2, 1, "bullet", <<"BULLET", " ">>)
             s4 == SubLines(s3, 1, "number", <<>>)
             s5 == CollapseNewlines(s4)
         IN  Strip(AfterSentence(s5, <<"\n">>))

\* content as main hands it to publish_to_mcp
normalise(s, text) ==
    IF s = "caipu" THEN format_content(clean_markdown(text))
    ELSE IF s = "caipunoai" THEN markdown_to_xiaohongshu(text)
    ELSE text

\* --------------------------------------------------------------- actions
Count(svc) == IF svc = watch THEN Sat(calls) ELSE calls
\* the record of a call_qwen_* call that returns at this attempt
\* the text of the response is a JSON array whose elements are all strings
StringArray(data) ==
    /\ data.shape = "text"
    /\ LET parsed == json_loads(Strip(data.text)) IN
       parsed.ok /\ \A i \in 1..Len(parsed.items) : parsed.items[i].isstr
\* the response holds a non-empty string where the value is read
Valued(data) == data.shape \in {"text", "image"} /\ data.text /= <<>>
Returned(stage, data, good, want, got) ==
    [stage |-> stage, reqs |-> attempt,
     fails |-> (attempt - 1) + (IF good THEN 0 ELSE 1),
     good |-> good, same |-> got = want, empty |-> got = None,
     strings |-> StringArray(data), valued |-> Valued(data)]

\* what the responses are: a usable value, or a failed attempt
GoodText(data) == data.shape = "text" /\ Strip(data.text) /= <<>>
GoodTags(data) ==
    /\ StringArray(data)
    /\ tags_clean(json_loads(Strip(data.text)).items) /= <<>>
GoodImage(data) == data.shape = "image" /\ data.text /= <<>>
WantTags(data) == Take(tags_clean(json_loads(Strip(data.text)).items), TAGS_COUNT)

\* df = load_csv_data(); the empty-ledger and font checks of main
Load ==
    /\ pc = "load"
    /\ df' = store
    /\ IF script = "xiaohongshumcp"
       THEN /\ selected' = {}
            /\ pc' = "grade"
       ELSE /\ selected' = filter_unpublished(store)
            /\ pc' = IF selected' = {} \/ (script = "caipunoai" /\ font = "absent")
                     THEN "done" ELSE "quota"
    /\ UNCHANGED <<script, font, run, store, to_publish, daily_quota, idx, attempt,
                   final_title, content, tags, image_url, delay, cur, calls, passes,
                   succeeded, lastCall, sinceSubmit, persistFailed, lostRow, watch>>
    /\ asked' = <<>>
    /\ answer' = "none"
    /\ UNCHANGED call_vars

\* the grade prompt loop of xiaohongshumcp.py and filter_by_grade
selected_grade(choice) ==
    IF choice = 0 THEN "gaozhongzu"
    ELSE IF choice = 1 THEN "chuzhongzu"
    ELSE get_available_grades(df)[choice - 1]
ChooseGrade ==
    /\ pc = "grade"
    /\ \E inp \in GradeInputs :
         IF inp.numeric /\ inp.n >= 0 /\ inp.n < 2 + Len(get_available_grades(df))
         THEN /\ selected' = filter_by_grade(df, selected_grade(inp.n))
              /\ pc' = IF selected' = {} THEN "done" ELSE "quota"
         ELSE UNCHANGED <<selected, pc>>
    /\ UNCHANGED <<script, font, run, store, df, to_publish, daily_quota, idx, attempt,
                   final_title, content, tags, image_url, delay, cur, calls, passes,
                   succeeded, lastCall, sinceSubmit, persistFailed, lostRow, watch>>
    /\ asked' = <<>>
    /\ answer' = "none"
    /\ UNCHANGED call_vars

\* the quota prompt, the clamp, the shuffle and the first loop header
quota_accepted(s, inp) ==
    IF s = "xiaohongshumcp" THEN inp.numeric /\ inp.n > 0 ELSE inp.numeric
InputQuota ==
    /\ pc = "quota"
    /\ \E inp \in QuotaInputs :
         IF quota_accepted(script, inp)
         THEN /\ daily_quota' = Min(inp.n, Cardinality(selected))
              /\ to_publish' \in Shuffles(selected)
              /\ BeginRecord(0, daily_quota', to_publish', calls)
              /\ asked' = <<inp.n>>
         ELSE /\ pc' = IF script = "xiaohongshumcp" THEN "quota" ELSE "aborted"
              /\ asked' = <<>>
              /\ UNCHANGED <<daily_quota, to_publish, idx, attempt, final_title, content,
                             tags, image_url, delay, cur, calls, passes>>
    /\ lastCall' = NoCall
    /\ UNCHANGED <<script, font, run, store, df, selected, succeeded, sinceSubmit,
                   persistFailed, lostRow, watch>>
    /\ answer' = "none"
    /\ UNCHANGED call_vars

\* the next attempt of the same call_qwen_* loop
Retry ==
    /\ attempt' = attempt + 1
    /\ lastCall' = NoCall
    /\ UNCHANGED <<pc, idx, final_title, content, tags, image_url, delay, cur, passes>>

\* the stage returned a value or a fallback: main goes on with the next stage
Advance(stage) ==
    /\ pc' = stage
    /\ attempt' = 1
    /\ UNCHANGED <<idx, delay, cur, passes>>

\* final_title = ai_title or truncate_title(original_title)
title_fallback_raw(ai_title, original) == IF Truthy(ai_title) THEN ai_title ELSE original
title_or_fallback(ai_title, original) ==
    IF Truthy(ai_title) THEN ai_title ELSE truncate_title(original)

\* ai_title = call_qwen_title(...) and the fallback of main
TitleAttempt ==
    /\ pc = "title"
    /\ \E data \in TextData(TitleTexts) :
         LET r == title_attempt(data)
             want == truncate_title(Strip(data.text))
         IN  IF r.accepted
             THEN /\ final_title' = title_or_fallback(r.value, original_title)
                  /\ lastCall' = Returned("title", data, GoodText(data), want, r.value)
                  /\ Advance("body")
                  /\ UNCHANGED <<content, tags, image_url>>
             ELSE IF attempt < MAX_RETRIES
             THEN Retry
             ELSE /\ final_title' = title_or_fallback(None, original_title)
                  /\ lastCall' = Returned("title", data, GoodText(data), want, None)
                  /\ Advance("body")
                  /\ UNCHANGED <<content, tags, image_url>>
    /\ calls' = Count("title")
    /\ UNCHANGED <<script, font, run, store, df, selected, to_publish, daily_quota,
                   succeeded, sinceSubmit, persistFailed, lostRow, watch>>
    /\ asked' = <<>>
    /\ answer' = "none"
    /\ UNCHANGED call_vars

\* content = call_qwen_text(...); `if not content: continue`; normalisation
BodyAttempt ==
    /\ pc = "body"
    /\ \E data \in TextData(BodyTexts) :
         LET r == text_attempt(script, data)
             want == Strip(data.text)
         IN  IF r.accepted /\ Truthy(r.value)
             THEN /\ content' = normalise(script, r.value)
                  /\ lastCall' = Returned("body", data, GoodText(data), want, r.value)
                  /\ Advance("tags")
                  /\ calls' = Count("body")
                  /\ UNCHANGED <<final_title, tags, image_url>>
             ELSE IF ~r.accepted /\ attempt < MAX_RETRIES
             THEN Retry /\ calls' = Count("body")
             ELSE /\ lastCall' = Returned("body", data, GoodText(data), want, r.value)
                  /\ SkipRecord(Count("body"))
    /\ UNCHANGED <<script, font, run, store, df, selected, to_publish, daily_quota,
                   succeeded, sinceSubmit, persistFailed, lostRow, watch>>
    /\ asked' = <<>>
    /\ answer' = "none"
    /\ UNCHANGED call_vars

\* tags = call_qwen_tags(...) and, in caipu.py and caipunoai.py, the marker
main_tags(s, tagList) == IF s = "xiaohongshumcp" THEN tagList ELSE prefix_tags(tagList)
TagsAttempt ==
    /\ pc = "tags"
    /\ \E data \in TextData(TagTexts) :
         LET r == tags_attempt(script, data)
             good == GoodTags(data)
             want == IF good THEN WantTags(data) ELSE None
         IN  IF r.accepted
             THEN /\ tags' = main_tags(script, r.value)
                  /\ lastCall' = Returned("tags", data, good, want, r.value)
                  /\ Advance("image")
                  /\ UNCHANGED <<final_title, content, image_url>>
             ELSE IF attempt < MAX_RETRIES
             THEN Retry
             ELSE /\ tags' = main_tags(script, default_tags(script, final_title))
                  /\ lastCall' = Returned("tags", data, good, want, None)
                  /\ Advance("image")
                  /\ UNCHANGED <<final_title, content, image_url>>
    /\ calls' = Count("tags")
    /\ UNCHANGED <<script, font, run, store, df, selected, to_publish, daily_quota,
                   succeeded, sinceSubmit, persistFailed, lostRow, watch>>
    /\ asked' = <<>>
    /\ answer' = "none"
    /\ UNCHANGED call_vars

\* image_url = call_qwen_image(...); `if not image_url: continue`
ImageAttempt ==
    /\ pc = "image"
    /\ script /= "caipunoai"
    /\ \E data \in ImageData :
         LET r == image_attempt(data)
         IN  IF r.accepted
             THEN /\ image_url' = r.value
                  /\ lastCall' = Returned("image", data, GoodImage(data), data.text, r.value)
                  /\ Advance("publish")
                  /\ calls' = Count("image")
                  /\ UNCHANGED <<final_title, content, tags>>
             ELSE IF attempt < MAX_RETRIES
             THEN Retry /\ calls' = Count("image")
             ELSE /\ lastCall' = Returned("image", data, GoodImage(data), data.text, None)
                  /\ SkipRecord(Count("image"))
    /\ UNCHANGED <<script, font, run, store, df, selected, to_publish, daily_quota,
                   succeeded, sinceSubmit, persistFailed, lostRow, watch>>
    /\ asked' = <<>>
    /\ answer' = "none"
    /\ UNCHANGED call_vars

\* image_path = create_dish_image(...); `if not image_path: continue`
RenderImage ==
    /\ pc = "image"
    /\ script = "caipunoai"
    /\ \E saved \in BOOLEAN :
         LET path == create_dish_image(final_title, font, saved)
         IN  IF Truthy(path)
             THEN /\ image_url' = path
                  /\ Advance("publish")
                  /\ calls' = calls
                  /\ UNCHANGED <<final_title, content, tags>>
             ELSE SkipRecord(calls)
    /\ lastCall' = NoCall
    /\ UNCHANGED <<script, font, run, store, df, selected, to_publish, daily_quota,
                   succeeded, sinceSubmit, persistFailed, lostRow, watch>>
    /\ asked' = <<>>
    /\ answer' = "none"
    /\ UNCHANGED call_vars

\* `if publish_to_mcp(...)` / `if success`: the ledger is updated on True only
publish_branch_always(ret) == TRUE
publish_branch(ret) == ret

\* publish_to_mcp(...) and the branch of main on its result
publish_fail_more(s) == IF s = "xiaohongshumcp" THEN idx < daily_quota ELSE idx < daily_quota - 1
Publish ==
    /\ pc = "publish"
    /\ \E data \in PublishData :
         LET r == publish_to_mcp(script, final_title, content, image_url, tags, data)
         IN  /\ calls' = IF r.sent THEN Count("publish") ELSE calls
             /\ answer' = success_indicator(r.sent, data)
             /\ sinceSubmit' = IF r.sent THEN 0 ELSE sinceSubmit
             /\ succeeded' = IF r.ret THEN succeeded \cup {current_row} ELSE succeeded
             /\ IF publish_branch(r.ret)
                THEN /\ pc' = "mark"
                     /\ UNCHANGED <<idx, attempt, final_title, content, tags, image_url,
                                    delay, cur, passes>>
                ELSE PaceOrEnd(idx, publish_fail_more(script))
    /\ lastCall' = NoCall
    /\ UNCHANGED <<script, font, run, store, df, selected, to_publish, daily_quota,
                   persistFailed, lostRow, watch>>
    /\ asked' = <<>>
    /\ UNCHANGED call_vars

\* save_csv_data(df): df.to_csv rewrites the whole file, or raises and
\* leaves the file as it was (written: the write went through)
save_csv_data_dropped(d, old, written) == old
save_csv_data(d, old, written) == IF written THEN d ELSE old
\* whether save_csv_data raises
save_raises(written) == ~written

\* the ledger update and save_csv_data(df) after a successful publish
count_after_mark(s) == IF s = "xiaohongshumcp" THEN idx + 1 ELSE idx
mark_more(s) == IF s = "xiaohongshumcp" THEN idx + 1 < daily_quota ELSE idx < daily_quota - 1
MarkAndSave ==
    /\ pc = "mark"
    /\ df' = mark_published(df, original_title, now)
    /\ \E written \in BOOLEAN :
         /\ store' = save_csv_data(df', store, written)
         /\ IF save_raises(written)
            THEN /\ pc' = "aborted"
                 /\ persistFailed' = current_row
                 /\ ForgetLocals
                 /\ UNCHANGED <<idx, delay, cur, passes>>
            ELSE /\ PaceOrEnd(count_after_mark(script), mark_more(script))
                 /\ UNCHANGED persistFailed
    /\ lastCall' = NoCall
    /\ UNCHANGED <<script, font, run, selected, to_publish, daily_quota, calls,
                   succeeded, sinceSubmit, lostRow, watch>>
    /\ asked' = <<>>
    /\ answer' = "none"
    /\ UNCHANGED call_vars

\* time.sleep(delay) returns and the loop goes to its next iteration
wake_index(s) == IF s = "xiaohongshumcp" THEN idx ELSE idx + 1
Wake ==
    /\ pc = "sleep"
    /\ BeginRecord(wake_index(script), daily_quota, to_publish, calls)
    /\ sinceSubmit' = Min(sinceSubmit + 1, 2)
    /\ lastCall' = NoCall
    /\ UNCHANGED <<script, font, run, store, df, selected, to_publish, daily_quota,
                   succeeded, persistFailed, lostRow, watch>>
    /\ asked' = <<>>
    /\ answer' = "none"
    /\ UNCHANGED call_vars

\* the process is terminated from outside; its memory is gone
Kill ==
    /\ pc \notin Stopped
    /\ pc /= "load"
    /\ pc' = "killed"
    /\ selected' = {}
    /\ to_publish' = <<>>
    /\ daily_quota' = 0
    /\ idx' = 0
    /\ attempt' = 1
    /\ final_title' = None
    /\ content' = None
    /\ tags' = <<>>
    /\ image_url' = None
    /\ delay' = 0
    /\ lastCall' = NoCall
    /\ cur' = -1
    /\ calls' = 0
    /\ passes' = 0
    /\ sinceSubmit' = -1
    /\ UNCHANGED <<script, font, run, store, df, succeeded, persistFailed, lostRow,
                   watch>>
    /\ asked' = <<>>
    /\ answer' = "none"
    /\ UNCHANGED call_vars

\* the script is started again over the same store
Restart ==
    /\ pc \in Stopped
    /\ run < MaxRuns
    /\ run' = run + 1
    /\ pc' = "load"
    /\ df' = store
    /\ selected' = {}
    /\ to_publish' = <<>>
    /\ daily_quota' = 0
    /\ idx' = 0
    /\ attempt' = 1
    /\ final_title' = None
    /\ content' = None
    /\ tags' = <<>>
    /\ image_url' = None
    /\ delay' = 0
    /\ cur' = -1
    /\ calls' = 0
    /\ passes' = 0
    /\ succeeded' = {}
    /\ lastCall' = NoCall
    /\ sinceSubmit' = -1
    /\ lostRow' = persistFailed
    /\ persistFailed' = 0
    /\ UNCHANGED <<script, font, store, watch>>
    /\ asked' = <<>>
    /\ answer' = "none"
    /\ UNCHANGED call_vars

NextRun ==
    \/ Load
    \/ ChooseGrade
    \/ InputQuota
    \/ TitleAttempt
    \/ BodyAttempt
    \/ TagsAttempt
    \/ ImageAttempt
    \/ RenderImage
    \/ Publish
    \/ MarkAndSave
    \/ Wake
    \/ Kill

\* one run of a script
Spec == Init /\ [][NextRun]_vars

\* runs of a script, one after the other, over the same store
InitRerun == Init /\ watch = "publish"
NextRerun == NextRun \/ Restart
SpecRerun == InitRerun /\ [][NextRerun]_vars

\* ------------------------------------------------------------- properties
DistinctIds(d) == \A r1, r2 \in Rows : d[r1].title = d[r2].title => r1 = r2
DurablyMarked(r) == store[r].published = Published
\* main is about to start a record's first stage, or is inside the pacing delay
AtCheckpoint == (pc = FirstStage(script) /\ attempt = 1) \/ pc = "sleep"
\* a step by which main leaves the stage without a value for it
LeavesWithout(stage, nextStage) ==
    /\ pc = stage
    /\ ~(pc' = stage /\ idx' = idx)
    /\ pc' \notin {nextStage, "killed"}

\* C1: the ledger, in memory or in the store, is modified only by the step
\* that directly follows a publish_to_mcp call reporting success for the
\* current record, and only in rows of that record's identifier; no other
\* step (exhausted stage, failed publish) modifies either.
C1_MarkOnlyAfterPublishSuccess ==
    [][ /\ (pc' = "mark" => pc = "publish" /\ current_row' \in succeeded')
        /\ (df' /= df \/ store' /= store) =>
             /\ pc = "mark"
             /\ current_row \in succeeded
             /\ \A r \in Rows :
                  (df'[r] /= df[r] \/ store'[r] /= store[r]) => df[r].title = original_title
      ]_vars
C1_Witness ==
    /\ pc \in {"sleep", "done"}
    /\ \E r \in succeeded : DurablyMarked(r) /\ df[r].publish_time = now

\* C2: at every start of a record's first stage and inside every pacing
\* delay, all records whose publish reported success in this run are marked
\* Published in the store; at any point at most one such record is not yet
\* marked there; and a Published mark of the store is never lost.
C2_PriorSuccessesDurable ==
    [][ /\ (AtCheckpoint' => \A r \in succeeded' : DurablyMarked(r)')
        /\ Cardinality({r \in succeeded' : ~DurablyMarked(r)'}) <= 1
        /\ \A r \in Rows : DurablyMarked(r) => DurablyMarked(r)'
      ]_vars
C2_Witness ==
    /\ pc = "sleep"
    /\ succeeded /= {}
    /\ \A r \in succeeded : DurablyMarked(r)

\* C3: every record of the batch is begun once only: after a failed publish
\* the run moves on to the next record.
C3_EachRecordOnce == passes <= 1

\* C4: no service receives more than MAX_RETRIES requests for one record.
C4_AtMostMaxRetries == calls <= MAX_RETRIES

\* C5: a generation stage call that meets its first usable response at
\* attempt k+1 issues exactly k+1 requests and returns that response's value;
\* it returns without a value only after MAX_RETRIES failed attempts.
C5_FirstGoodValueWins ==
    lastCall.stage /= "none" =>
        IF lastCall.good
        THEN lastCall.reqs = lastCall.fails + 1 /\ lastCall.same
        ELSE lastCall.reqs = MAX_RETRIES /\ lastCall.empty

\* C6: an exhausted title stage continues with the truncated original
\* identifier at the body stage; an exhausted tag stage continues with the
\* three default tags derived from the title at the image stage.
Marker(s) == IF s = "xiaohongshumcp" THEN <<>> ELSE <<"#">>
ExpectedDefaultTags ==
    IF script = "xiaohongshumcp"
    THEN << Take(final_title, 5) \o <<"bei", "jing", "zhen", "ti">>,
            <<"bei", "jing", "chu", "gao", "zhong", "zi", "yuan">>,
            <<"bei", "jing", "jia", "zhang", "bi", "bei">> >>
    ELSE << <<"#">> \o Take(final_title, 4) \o <<"jia", "chang">>,
            <<"#", "mei", "shi", "tui", "jian">>,
            <<"#", "xia", "fan", "cai">> >>
C6_FallbackContinues ==
    /\ (lastCall.stage = "title" /\ lastCall.empty) =>
          /\ final_title = truncate_title(original_title)
          /\ pc = "body" /\ attempt = 1 /\ cur = idx
    /\ (lastCall.stage = "tags" /\ lastCall.empty) =>
          /\ tags = ExpectedDefaultTags
          /\ Len(tags) = 3
          /\ pc = "image" /\ attempt = 1 /\ cur = idx
C6_Witness ==
    /\ lastCall.stage = "tags"
    /\ lastCall.empty
    /\ HasTitleStage(script)
    /\ Len(original_title) > MAX_TITLE_LENGTH
    /\ final_title = truncate_title(original_title)

C8_AfterFailedSave(distinct) ==
    /\ (pc = "aborted" /\ persistFailed /= 0) =>
          /\ (distinct => store[persistFailed].published = Unpublished)
          /\ \A r \in succeeded \ {persistFailed} : DurablyMarked(r)
    /\ (lostRow /= 0 /\ pc \in {"grade", "quota"} /\ distinct) =>
          lostRow \in filter_unpublished(df)
C8_FailedSaveKeepsRecordUnpublished == C8_AfterFailedSave(TRUE)
\* The same statement over ledgers whose identifiers are pairwise distinct,
\* where no row is submitted after a row of its identifier was marked.
C8_DistinctIdsKeepRecordUnpublished == C8_AfterFailedSave(DistinctIds(store))
C8_Witness ==
    /\ DistinctIds(store)
    /\ lostRow /= 0
    /\ pc = "mark"
    /\ current_row = lostRow

\* C9: with pairwise distinct identifiers, the update after a successful
\* publish changes the row of the published record only: it becomes
\* Published with a non-empty timestamp, its other fields and all other rows
\* stay as they were, in memory and in the store that is rewritten from it.
C9_UpdateTouchesOneRow ==
    [][ (pc = "mark" /\ pc' /= "killed" /\ DistinctIds(df)) =>
          /\ \A r \in Rows :
               IF r = current_row
               THEN /\ df'[r].published = Published
                    /\ df'[r].publish_time /= <<>>
                    /\ df'[r].title = df[r].title
                    /\ df'[r].grade = df[r].grade
               ELSE df'[r] = df[r] /\ store'[r] = store[r]
          /\ store' /= store => store' = df'
      ]_vars
C9_Witness ==
    /\ DistinctIds(df)
    /\ pc \in {"sleep", "done"}
    /\ store = df
    /\ \E r \in succeeded : df[r].published = Published /\ df[r].publish_time = now
    /\ \E r \in Rows : df[r].published = Unpublished

\* C10: every pacing delay lasts between 3900 and 4500 seconds, and a
\* publish request that follows an earlier one of the run is separated from
\* it by exactly one pacing delay.
C10_OneDelayBetweenSubmissions ==
    /\ pc = "sleep" => delay >= 3900 /\ delay <= 4500
    /\ pc = "publish" => sinceSubmit \in {-1, 1}
C10_Witness ==
    /\ pc = "publish"
    /\ sinceSubmit = 1
    /\ passes = 1

\* a step that ends the processing of the current record, whatever its outcome
RecordEnds ==
    /\ pc \in {"title", "body", "tags", "image", "publish", "mark"}
    /\ pc' \notin {"killed", "aborted"}
    /\ pc' \in {"sleep", "done"} \/ idx' /= idx

\* C11: a pacing delay follows the processing of each of the first n-1
\* records of the batch, whatever the record's outcome, and none follows the
\* n-th record.
C11_DelayAfterEachButLast ==
    [][ RecordEnds => (pc' = "sleep" <=> cur + 1 < daily_quota) ]_vars

\* the rows the loop visits: to_publish.iloc[0], ..., to_publish.iloc[daily_quota - 1]
batch == SubSeq(to_publish, 1, daily_quota)

\* C12: for a quota n >= 1 typed at the prompt, the batch has min(n, number of
\* unpublished rows to choose from) rows, they are pairwise distinct rows, each
\* Unpublished in the ledger as loaded, and for n above that number the batch
\* holds every one of those rows.
C12_BatchIsClampedSample ==
    (asked /= <<>> /\ asked[1] >= 1) =>
        /\ Len(batch) = Min(asked[1], Cardinality(selected))
        /\ \A i, j \in 1..Len(batch) : batch[i] = batch[j] => i = j
        /\ \A i \in 1..Len(batch) : df[batch[i]].published = Unpublished
        /\ selected \subseteq filter_unpublished(df)
        /\ script /= "xiaohongshumcp" => selected = filter_unpublished(df)
        /\ asked[1] > Cardinality(selected) => {batch[i] : i \in 1..Len(batch)} = selected
C12_Witness ==
    /\ asked /= <<>>
    /\ asked[1] > Cardinality(selected)
    /\ Len(batch) = NumRows
    /\ pc = FirstStage(script)

\* the stages that call an external service, and their order in main
CallStages == {"title", "body", "tags", "image", "publish"}
NextStage(stage) ==
    IF stage = "title" THEN "body"
    ELSE IF stage = "body" THEN "tags"
    ELSE IF stage = "tags" THEN "image"
    ELSE "publish"
\* a step that begins the first stage of a record
Begins == pc' = FirstStage(script) /\ attempt' = 1 /\ (pc /= pc' \/ idx' /= idx)
\* after the step, the stage has handed main a value or its fallback
Produced(stage) ==
    IF stage = "title" THEN Truthy(final_title')
    ELSE IF stage = "body" THEN lastCall'.stage = "body" /\ ~lastCall'.empty /\ content' /= None
    ELSE IF stage = "tags" THEN tags' /= <<>>
    ELSE Truthy(image_url')

\* C13: the calls for a record are made in the order title, body, tags,
\* image, publish; a stage follows the one before it only once that one has
\* produced a value or a fallback; and whenever a first stage is begun, it is
\* that of the next record of the batch, so that no call for a record is made
\* after the calls for a later one have begun, nor after its own publish call.
C13_StagesInOrder ==
    [][ /\ Begins => cur' = cur + 1
        /\ pc' \in CallStages => idx' = cur'
        /\ (pc \in CallStages /\ pc' \in CallStages /\ ~Begins) =>
              \/ pc' = pc /\ cur' = cur
              \/ pc' = NextStage(pc) /\ cur' = cur /\ Produced(pc)
      ]_vars

\* --------------------------------------------------------------------- C14
\* the tag list handed to publish_to_mcp, and a tag without its marker
submitted_tags == tags
Bare(t) == IF StartsWith(t, <<"#">>) THEN Tail(t) ELSE t

\* C14: every tag list submitted to the publish service has at most three
\* tags, each of two to eight characters not counting the marker, and no tag
\* occurs twice in it.
C14_TagListWellFormed ==
    pc = "publish" =>
        /\ Len(submitted_tags) <= 3
        /\ \A i \in 1..Len(submitted_tags) :
              Len(Bare(submitted_tags[i])) \in 2..8
        /\ \A i, j \in 1..Len(submitted_tags) :
              submitted_tags[i] = submitted_tags[j] => i = j

\* --------------------------------------------------------------------- C15
\* C15: in every script each tag submitted to the publish service begins
\* with the marker '#'.
C15_SubmittedTagsMarked ==
    pc = "publish" =>
        \A i \in 1..Len(submitted_tags) : StartsWith(submitted_tags[i], <<"#">>)

\* --------------------------------------------------------------------- C16
\* C16: a tag response whose text is not a JSON array of strings only (not
\* an array, not parsable, or an array with a non-string element) is a failed
\* attempt: call_qwen_tags never returns a tag list taken from it.
C16_OnlyStringArraysAccepted ==
    (lastCall.stage = "tags" /\ ~lastCall.strings) => lastCall.empty

\* --------------------------------------------------------------------- C17
\* C17: a response of any malformed shape (body not an object, no output, no
\* choice, empty content array, empty or non-string value) and a transport
\* exception are a failed attempt: a stage call never returns a value taken
\* from such a response, and the batch goes on.
C17_MalformedResponseFails ==
    (lastCall.stage \in {"title", "body", "tags", "image"} /\ ~lastCall.valued) =>
        /\ lastCall.empty
        /\ pc \notin {"aborted", "killed"}

\* --------------------------------------------------------------------- C18
\* C18: in caipunoai.py a font that cannot be loaded (absent, or present but
\* unreadable) aborts the batch before any record is processed: no stage of
\* any record is entered, nothing is published and the ledger is not
\* rewritten, so the failure is never a skip of one record.
C18_FontFailureAbortsBatch ==
    (script = "caipunoai" /\ font /= "ok") =>
        pc \notin CallStages \cup {"mark", "sleep"}

\* ------------------------------------------- functions applied on their own
\* A function of the scripts is applied to an argument drawn from a bounded
\* set; no script runs (pc = "call") and the state of main stays as it is.
MaxPad == 2
\* titles: None, or blanks, a run of characters, blanks
Padded(l, n, r) == Rep(" ", l) \o Rep("h", n) \o Rep(" ", r)
TitleArgs ==
    {None} \cup {Padded(l, n, r) : l \in 0..MaxPad, r \in 0..MaxPad,
                                   n \in 0..(MAX_TITLE_LENGTH + MaxPad)}

\* words: every split of a stripped title into non-empty words
MaxChars == 9
Letters == <<"a", "b", "c", "d", "e", "f", "g", "h", "i", "j", "k", "l">>
Plain(n) == Take(Letters, n)
Spaced(n) == <<"a", " ">> \o SubSeq(Letters, 2, n - 1)
CleanTitles == {Plain(n) : n \in 1..MaxChars} \cup {Spaced(n) : n \in 3..MaxChars}
RECURSIVE Cuts(_)
Cuts(t) ==
    IF t = <<>> THEN {<<>>}
    ELSE UNION {{<<Take(t, k)>> \o rest : rest \in Cuts(Drop(t, k))} : k \in 1..Len(t)}
WordArgs == UNION {Cuts(t) : t \in CleanTitles}

\* response bodies: every combination of a text field and a content field
PaddedYo == <<" ", "y", "o", "\n">>
BodyTextValues == {Absent, Str(<<>>), Str(Hi), Number, ListOfStr(Hi)}
BodyContentValues ==
    {Absent, Str(<<>>), Str(PaddedYo), EmptyList, ListOfObj(<<>>), ListOfObj(PaddedYo)}
BodyArgs ==
    {Body("exception", Absent, "absent", Absent), Body("non_object", Absent, "absent", Absent)}
    \cup {Body("object", t, c, Absent) : t \in BodyTextValues, c \in {"absent", "empty"}}
    \cup {Body("object", t, "one", c) : t \in BodyTextValues, c \in BodyContentValues}

\* body texts as qwen_request returns them: stripped and not empty
MaxBody == 4
BodyChars == {"a", "JU", "\n", " ", "-"}
BodyArgTexts ==
    {t \in UNION {[1..n -> BodyChars] : n \in 1..MaxBody} : Strip(t) = t}

InitCalls ==
    /\ \/ fn = "truncate_title" /\ arg \in TitleArgs
       \/ fn = "create_dish_image" /\ arg \in WordArgs
       \/ fn = "qwen_request" /\ arg \in BodyArgs
       \/ fn = "normalise" /\ arg \in BodyArgTexts
    /\ script \in (IF fn = "normalise" THEN {"caipu", "caipunoai"} ELSE {"caipunoai"})
    /\ font = "ok"
    /\ run = 1
    /\ store = Ledger(FALSE, {})
    /\ df = store
    /\ pc = "call"
    /\ selected = {}
    /\ to_publish = <<>>
    /\ daily_quota = 0
    /\ idx = 0
    /\ attempt = 1
    /\ final_title = None
    /\ content = None
    /\ tags = <<>>
    /\ image_url = None
    /\ delay = 0
    /\ cur = -1
    /\ calls = 0
    /\ passes = 0
    /\ succeeded = {}
    /\ lastCall = NoCall
    /\ sinceSubmit = -1
    /\ persistFailed = 0
    /\ lostRow = 0
    /\ watch = "publish"
    /\ asked = <<>>
    /\ answer = "none"
    /\ applied = 0
    /\ result = <<>>

\* truncate_title(arg), and then truncate_title of what it returned
TruncateTitle ==
    /\ fn = "truncate_title"
    /\ applied < 2
    /\ result' = truncate_title(IF applied = 0 THEN arg ELSE result)
    /\ applied' = applied + 1
    /\ UNCHANGED <<main_vars, fn, arg>>

\* the lines create_dish_image draws for the words arg
BreakLines ==
    /\ fn = "create_dish_image"
    /\ applied = 0
    /\ result' = dish_lines(arg)
    /\ applied' = 1
    /\ UNCHANGED <<main_vars, fn, arg>>

\* the font size create_dish_image chooses for the lines just produced
ChooseFontSize ==
    /\ fn = "create_dish_image"
    /\ applied = 1
    /\ \E font_metrics \in FontMetrics :
         LET found == best_font_size(result, font_metrics)
         IN  result' = [lines |-> result, font |-> font_metrics,
                        ended |-> found.ended, best_size |-> found.best_size]
    /\ applied' = 2
    /\ UNCHANGED <<main_vars, fn, arg>>

\* qwen_request on the response body arg
Request ==
    /\ fn = "qwen_request"
    /\ applied = 0
    /\ result' = qwen_extract(arg)
    /\ applied' = 1
    /\ UNCHANGED <<main_vars, fn, arg>>

\* content = format_content(clean_markdown(content)) in caipu.py,
\* content = markdown_to_xiaohongshu(content) in caipunoai.py
Normalise ==
    /\ fn = "normalise"
    /\ applied = 0
    /\ result' = normalise(script, arg)
    /\ applied' = 1
    /\ UNCHANGED <<main_vars, fn, arg>>

NextCalls ==
    \/ Request
    \/ Normalise
    \/ TruncateTitle
    \/ BreakLines
    \/ ChooseFontSize

SpecCalls == InitCalls /\ [][NextCalls]_vars

\* --------------------------------------------------------------------- C19
\* C19 as stated: an input longer than the cap gives an output of exactly
\* MAX_TITLE_LENGTH characters that ends with the ellipsis, an input at or
\* under the cap gives the trimmed input, and truncate_title is idempotent.
C19_CapByInputLength ==
    (fn = "truncate_title" /\ applied >= 1 /\ arg /= None) =>
        /\ Len(arg) > MAX_TITLE_LENGTH =>
              Len(result) = MAX_TITLE_LENGTH /\ result[Len(result)] = ELLIPSIS
        /\ Len(arg) <= MAX_TITLE_LENGTH => result = Strip(arg)
        /\ applied = 2 => result = truncate_title(arg)

\* C19, amended: the cap is compared with the trimmed input. A trimmed input
\* longer than the cap gives exactly MAX_TITLE_LENGTH characters ending with
\* the ellipsis, a trimmed input at or under the cap is returned as it is,
\* and truncate_title(truncate_title(x)) = truncate_title(x).
C19_CapByTrimmedLength ==
    (fn = "truncate_title" /\ applied >= 1 /\ arg /= None) =>
        /\ Len(Strip(arg)) > MAX_TITLE_LENGTH =>
              Len(result) = MAX_TITLE_LENGTH /\ result[Len(result)] = ELLIPSIS
        /\ Len(Strip(arg)) <= MAX_TITLE_LENGTH => result = Strip(arg)
        /\ applied = 2 => result = truncate_title(arg)
\* a padded title over the cap was cut, and the result was cut again
C19_Witness ==
    /\ fn = "truncate_title"
    /\ applied = 2
    /\ arg /= None
    /\ Len(Strip(arg)) > MAX_TITLE_LENGTH
    /\ Len(arg) > Len(Strip(arg))
    /\ result[Len(result)] = ELLIPSIS

\* --------------------------------------------------------------------- C20
NonWhitespace(t) == SelectSeq(t, LAMBDA c : ~IsSpace(c))
\* C20: for every non-empty title and every split of it into non-empty
\* words, the lines of create_dish_image, put one after the other, hold
\* exactly the non-whitespace characters of the title in the same order.
C20_LinesKeepTitleCharacters ==
    (fn = "create_dish_image" /\ applied = 1) =>
        NonWhitespace(Join(result)) = NonWhitespace(Join(arg))
\* a title with a blank whose first word was split by force and whose short
\* last line was merged into the line before
C20_Witness ==
    /\ fn = "create_dish_image"
    /\ applied = 1
    /\ Len(arg[1]) > target_max
    /\ \E i \in 1..Len(arg) : \E j \in 1..Len(arg[i]) : IsSpace(arg[i][j])
    /\ Len(result) >= 2
    /\ Len(result) + 1 = Len(pack_words(arg, <<>>, <<>>, 0))

\* --------------------------------------------------------------------- C21
\* C21: whenever the final line list of create_dish_image has two or more
\* lines, its last line has more than 2 characters: a last line of 2
\* characters or fewer never stands alone after another line.
C21_NoShortLastLine ==
    (fn = "create_dish_image" /\ applied = 1 /\ Len(result) >= 2) =>
        Len(result[Len(result)]) > 2
\* the packing closed a last line of at most 2 characters after two other
\* lines, and the final list still has two lines
C21_Witness ==
    /\ fn = "create_dish_image"
    /\ applied = 1
    /\ Len(result) = 2
    /\ LET packed == pack_words(arg, <<>>, <<>>, 0) IN
       Len(packed) = 3 /\ Len(packed[3]) <= 2

\* --------------------------------------------------------------------- C22
\* C22: for the lines of a title, with metrics that do not decrease with the
\* size, the search over the sizes 10, 12, 14, ... ends and returns a size at
\* which the widest line is within max_width and the block of lines within
\* max_height, while at the next size one of the two bounds is exceeded.
C22_LargestFittingSize ==
    (fn = "create_dish_image" /\ applied = 2) =>
        /\ result.ended
        /\ result.best_size >= first_font_size
        /\ (result.best_size - first_font_size) % font_size_step = 0
        /\ max_line_width(result.lines, result.font, result.best_size) <= max_width
        /\ total_height(result.lines, result.font, result.best_size) <= max_height
        /\ \/ max_line_width(result.lines, result.font,
                              result.best_size + font_size_step) > max_width
           \/ total_height(result.lines, result.font,
                           result.best_size + font_size_step) > max_height
\* three lines whose height, not their width, stopped the search
C22_Witness ==
    /\ fn = "create_dish_image"
    /\ applied = 2
    /\ Len(result.lines) = 3
    /\ result.best_size > first_font_size
    /\ total_height(result.lines, result.font,
                    result.best_size + font_size_step) > max_height
    /\ max_line_width(result.lines, result.font,
                      result.best_size + font_size_step) <= max_width

\* --------------------------------------------------------------------- C23
\* C23: in every script a quota entry that is not a positive integer (text
\* that is not a number, zero, a negative number) leads to a new prompt: the
\* only way main leaves the prompt is an entry of 1 or more.
C23_BadQuotaPromptsAgain ==
    [][ (pc = "quota" /\ pc' /= "killed") =>
            \/ pc' = "quota"
            \/ asked' /= <<>> /\ asked'[1] >= 1 ]_vars

\* --------------------------------------------------------------------- C24
\* the lines closed by the packing, before the merge of a short last line
packed_lines(words) == pack_words(words, <<>>, <<>>, 0)
\* C24: every line closed by the packing has at most target_max characters:
\* a word longer than target_max is split at target_max wherever it stands
\* in the title, and a remainder longer than target_max is split again.
C24_PackedLinesWithinMax ==
    (fn = "create_dish_image" /\ applied >= 1) =>
        \A i \in 1..Len(packed_lines(arg)) : Len(packed_lines(arg)[i]) <= target_max

\* --------------------------------------------------------------------- C25
\* the value the three extraction rules name, None when none of them finds a
\* non-empty string
NonEmptyStr(v) == v.type = "str" /\ v.s /= <<>>
RuleValue(body) ==
    IF NonEmptyStr(body.text) THEN body.text.s
    ELSE IF body.choices = "one" /\ NonEmptyStr(body.content) THEN body.content.s
    ELSE IF body.choices = "one" /\ body.content.type = "list_obj"
            /\ body.content.s /= <<>>
    THEN body.content.s
    ELSE None
\* C25: qwen_request returns the first non-empty value of (1) output.text,
\* (2) the content of the first choice when it is a string, (3) the text of
\* the first object of that content when it is an array of objects; a body
\* with the array form only gives the text of that object.
C25_FirstRuleValueReturned ==
    (/\ fn = "qwen_request" /\ applied = 1
     /\ arg.kind = "object"
     /\ arg.text.type \in {"absent", "str"}
     /\ arg.content.type \in {"absent", "str", "list_obj"}
     /\ RuleValue(arg) /= None) =>
        ~result.raised /\ result.value = Strip(RuleValue(arg))

\* --------------------------------------------------------------------- C26
NewlineRunAt(t, i) == i + 2 <= Len(t) /\ \A k \in i..(i + 2) : t[k] = "\n"
\* C26: for every body text the normalised content has no run of three or
\* more newline characters.
C26_NoTripleNewline ==
    (fn = "normalise" /\ applied = 1) =>
        \A i \in 1..Len(result) : ~NewlineRunAt(result, i)

\* --------------------------------------------------------------------- C27
\* a step by which a request for the current record goes to the publish service
Submits == pc = "publish" /\ sinceSubmit' = 0
\* C27: within one run no record is submitted to the publish service while
\* its row is marked Published in the ledger in memory, also when several
\* rows have the same identifier.
C27_NoSubmitOfPublishedRow ==
    [][ Submits => df[current_row].published = Unpublished ]_vars

\* --------------------------------------------------------------------- C28
\* C28: in every script, whenever the publish service answers a submission
\* with a success indicator that is true, publish_to_mcp returns True and
\* main goes on to mark the record Published and save the ledger, whatever
\* else the response holds.
C28_SuccessAnswerIsMarked ==
    answer = "true" => (pc = "mark" /\ current_row \in succeeded)

\* --------------------------------------------------------------------- C29
\* the payload of the POST that publish_to_mcp sends
payload ==
    [title   |-> Strip(final_title),
     content |-> Strip(content),
     images  |-> <<image_url>>,
     tags    |-> tags]
\* C29: every request sent to the publish service carries a non-empty title,
\* a non-empty content string, exactly one non-empty image reference and at
\* least one tag.
C29_RequestFieldsNonEmpty ==
    [][ Submits => /\ Truthy(payload.title)
                   /\ Truthy(payload.content)
                   /\ Len(payload.images) = 1 /\ Truthy(payload.images[1])
                   /\ Len(payload.tags) >= 1 ]_vars
====
